---- MODULE Spec2Model ----
(***************************************************************************)
(* live-beats-aws: the CDK program (bin/live-beats-aws.ts and the four     *)
(* stack classes under lib/) together with the operator procedure of the   *)
(* README (cdk deploy / edit desiredCount / update-secret / cdk destroy).  *)
(*                                                                         *)
(* A string is modelled as a sequence of atoms: an atom is one letter of   *)
(* an input (stage, appName) or one literal copied from the source.        *)
(* Resources carry the names of the variables that hold them in the        *)
(* source.                                                                 *)
(***************************************************************************)
EXTENDS Integers, Sequences, FiniteSets, TLC

\* ------------------------------------------------------------------ bounds

\* How many times one logical resource may be physically created.
MaxGen == 1

\* ----------------------------------------------------------------- strings

UpperChars == <<"A","B","C","D","E","F","G","H","I","J","K","L","M",
                "N","O","P","Q","R","S","T","U","V","W","X","Y","Z">>

LowerChars == <<"a","b","c","d","e","f","g","h","i","j","k","l","m",
                "n","o","p","q","r","s","t","u","v","w","x","y","z">>

IsUpperChar(c) == \E i \in 1..Len(UpperChars) : UpperChars[i] = c

ToLowerChar(c) ==
  IF IsUpperChar(c)
  THEN LowerChars[CHOOSE i \in 1..Len(UpperChars) : UpperChars[i] = c]
  ELSE c

\* String.prototype.toLowerCase
ToLower(s) == [i \in 1..Len(s) |-> ToLowerChar(s[i])]

HasUpper(s) == \E i \in 1..Len(s) : IsUpperChar(s[i])

NoValue == <<>>

\* ------------------------------------------------------------------ inputs

\* const stage = "staging"
BinStage == <<"s","t","a","g","i","n","g">>

\* const appName = "live-beats"
BinAppName == <<"l","i","v","e","-","b","e","a","t","s">>

\* The stack classes take stage and appName as props of type string.
Stages == {BinStage}

AppNames == {BinAppName, <<"D","e","m","o">>}

\* env: the account and region the stacks are deployed to
Partition == <<"aws">>

Region == <<"eu-west-2">>

Account == <<"1234567">>

\* ------------------------------------------------------------------ stacks

FoundationId == "foundation-stack"

DatabaseId == "database-stack"

AppId == "app-stack"

RoutingId == "routing-stack"

Stacks == {FoundationId, DatabaseId, AppId, RoutingId}

\* The handles a stack class exposes: its public readonly fields.
Exports(s) ==
  CASE s = FoundationId -> {"vpc"}
    [] s = DatabaseId   -> {"database", "databaseCredentialsSecretArn"}
    [] s = AppId        -> {"ecsLoadBalancer"}
    [] s = RoutingId    -> {}

\* What DatabaseStackProps takes from another stack, and from which.
DatabaseStackProps ==
  {[handle |-> "vpc", owner |-> FoundationId]}

\* AppStack as it would be if DatabaseStack's security group were passed to it.
AppStackProps_securityGroup ==
  {[handle |-> "vpc", owner |-> FoundationId],
   [handle |-> "databaseCredentialsSecretArn", owner |-> DatabaseId],
   [handle |-> "databaseSecurityGroup", owner |-> DatabaseId]}

\* What AppStackProps takes from another stack, and from which.
AppStackProps ==
  {[handle |-> "vpc", owner |-> FoundationId],
   [handle |-> "databaseCredentialsSecretArn", owner |-> DatabaseId],
   [handle |-> "database", owner |-> DatabaseId]}

\* What RoutingStackProps takes from another stack, and from which.
RoutingStackProps ==
  {[handle |-> "vpc", owner |-> FoundationId],
   [handle |-> "ecsLoadBalancer", owner |-> AppId]}

Props(s) ==
  CASE s = FoundationId -> {}
    [] s = DatabaseId   -> DatabaseStackProps
    [] s = AppId        -> AppStackProps
    [] s = RoutingId    -> RoutingStackProps

\* --------------------------------------------------------------- resources

FoundationResources == {"vpc"}

DatabaseResources ==
  {"databaseSecurityGroup", "databaseCredentialsSecret", "database"}

\* The secrets AppStack generates.
AppSecrets ==
  {"secretKeyBaseSecret", "releaseCookieSecret",
   "liveBeatsGitHubClientIdSecret", "liveBeatsGitHubClientSecretSecret"}

\* The two placeholders the operator is asked to fill in.
OAuthSecrets ==
  {"liveBeatsGitHubClientIdSecret", "liveBeatsGitHubClientSecretSecret"}

AppResources ==
  {"ecsAlbSecurityGroup", "ecsServiceSecurityGroup", "databaseIngressRule",
   "taskDefinition", "ecsCluster", "ecsLoadBalancer", "lbListener",
   "lbTargetGroup", "ecsService"}
  \cup AppSecrets

RoutingResources ==
  {"accelerator", "acceleratorListener", "acceleratorEndpointGroup"}

Resources(s) ==
  CASE s = FoundationId -> FoundationResources
    [] s = DatabaseId   -> DatabaseResources
    [] s = AppId        -> AppResources
    [] s = RoutingId    -> RoutingResources

AllResources == UNION {Resources(s) : s \in Stacks}

StackOf(r) == CHOOSE s \in Stacks : r \in Resources(s)

SecurityGroups ==
  {"databaseSecurityGroup", "ecsAlbSecurityGroup", "ecsServiceSecurityGroup"}

Secrets == AppSecrets \cup {"databaseCredentialsSecret"}

\* The resources of its owner that a handle gives access to: the database
\* handle carries database.connections, i.e. the database's security group.
HandleResources(h) ==
  CASE h = "vpc"                          -> {"vpc"}
    [] h = "database"                     -> {"database", "databaseSecurityGroup"}
    [] h = "databaseCredentialsSecretArn" -> {"databaseCredentialsSecret"}
    [] h = "ecsLoadBalancer"              -> {"ecsLoadBalancer"}

\* The references as they would be if the task definition were given the
\* hostname as plain text, to be filled in once the load balancer exists.
Deps_hostnameLater(r) ==
  CASE r = "vpc"                       -> {}
    [] r = "databaseSecurityGroup"     -> {"vpc"}
    [] r = "databaseCredentialsSecret" -> {}
    [] r = "database" ->
         {"vpc", "databaseSecurityGroup", "databaseCredentialsSecret"}
    [] r = "ecsAlbSecurityGroup"       -> {"vpc"}
    [] r = "ecsServiceSecurityGroup"   -> {"vpc"}
    [] r = "databaseIngressRule" ->
         {"ecsServiceSecurityGroup", "databaseSecurityGroup"}
    [] r = "taskDefinition" ->
         {"databaseCredentialsSecret"} \cup AppSecrets
    [] r = "ecsCluster"                -> {"vpc"}
    [] r = "ecsLoadBalancer"           -> {"vpc", "ecsAlbSecurityGroup"}
    [] r = "lbTargetGroup"             -> {"vpc"}
    [] r = "lbListener"                -> {"ecsLoadBalancer", "lbTargetGroup"}
    [] r \in AppSecrets                -> {}
    [] r = "ecsService" ->
         {"ecsCluster", "taskDefinition", "ecsServiceSecurityGroup",
          "lbTargetGroup"}
    [] r = "accelerator"               -> {}
    [] r = "acceleratorListener"       -> {"accelerator"}
    [] r = "acceleratorEndpointGroup"  ->
         {"acceleratorListener", "ecsLoadBalancer"}

\* What a resource's definition refers to (another construct passed in its
\* props, or a token of it), hence what must exist before it is created.
Deps(r) ==
  CASE r = "vpc"                       -> {}
    [] r = "databaseSecurityGroup"     -> {"vpc"}
    [] r = "databaseCredentialsSecret" -> {}
    [] r = "database" ->
         {"vpc", "databaseSecurityGroup", "databaseCredentialsSecret"}
    [] r = "ecsAlbSecurityGroup"       -> {"vpc"}
    [] r = "ecsServiceSecurityGroup"   -> {"vpc"}
    [] r = "databaseIngressRule" ->
         {"ecsServiceSecurityGroup", "databaseSecurityGroup"}
    [] r = "taskDefinition" ->
         {"ecsLoadBalancer", "databaseCredentialsSecret"} \cup AppSecrets
    [] r = "ecsCluster"                -> {"vpc"}
    [] r = "ecsLoadBalancer"           -> {"vpc", "ecsAlbSecurityGroup"}
    [] r = "lbTargetGroup"             -> {"vpc"}
    [] r = "lbListener"                -> {"ecsLoadBalancer", "lbTargetGroup"}
    [] r \in AppSecrets                -> {}
    [] r = "ecsService" ->
         {"ecsCluster", "taskDefinition", "ecsServiceSecurityGroup",
          "lbTargetGroup", "lbListener"}
    [] r = "accelerator"               -> {}
    [] r = "acceleratorListener"       -> {"accelerator"}
    [] r = "acceleratorEndpointGroup"  ->
         {"acceleratorListener", "ecsLoadBalancer"}

\* ------------------------------------------------------------------- state

VARIABLES
  stage,         \* props.stage of every stack
  appName,       \* props.appName of every stack
  routing,       \* whether the wiring also instantiates the optional RoutingStack
  desiredCount,  \* the desiredCount written in lib/appStack.ts
  cmd,           \* the cdk command in progress: [op, target, phase]
  pc,            \* bin/live-beats-aws.ts: index of the next constructor call
  handles,       \* the stack fields assigned so far in this run of the program
  refs,          \* the cross-stack reads made so far in this run
  queue,         \* the stacks the command has still to deploy or destroy
  stackStatus,   \* CloudFormation status of each stack
  exists,        \* the resources that exist in the account
  gen,           \* how many times each resource has been physically created
  applied,       \* the definition each existing resource was last applied with
  rules,         \* the rules attached to each security group
  lbDnsName,     \* the load balancer's hostname
  clusterName,   \* the ECS cluster's name
  taskEnv,       \* the environment of the registered task definition
  svc,           \* the ECS service: [desiredCount, serviceArn]
  secretValue,   \* who wrote the current value of each secret
  replicas       \* the environment each running task was started with

vars ==
  <<stage, appName, routing, desiredCount, cmd, pc, handles, refs, queue,
    stackStatus, exists, gen, applied, rules, lbDnsName, clusterName,
    taskEnv, svc, secretValue, replicas>>

\* The parts of the state, for UNCHANGED.
inputVars == <<stage, appName, routing>>

synthVars == <<pc, handles, refs>>

physVars == <<rules, lbDnsName, clusterName, taskEnv, svc, secretValue>>

accountVars == <<stackStatus, exists, gen, applied, physVars, replicas>>

\* -------------------------------------------------------- AppStack: names

\* const ecsClusterName = props.appName + "-ecs-cluster"
ecsClusterName == appName \o <<"-ecs-cluster">>

\* The service's name as it would be if it were made to vary with the count.
ecsServiceName_counted ==
  appName \o <<"-ecs-service-">> \o (IF desiredCount = 0 THEN <<"0">> ELSE <<"n">>)

\* const ecsServiceName = props.appName + "-ecs-service"
ecsServiceName == appName \o <<"-ecs-service">>

\* loadBalancerName: `${props.stage}-${props.appName}-ecs-lb`
loadBalancerName == stage \o <<"-">> \o appName \o <<"-ecs-lb">>

\* Stack.formatArn with the default ArnFormat.SLASH_RESOURCE_NAME:
\* arn:{partition}:{service}:{region}:{account}:{resource}/{resourceName}
formatArn(c) ==
  <<"arn", ":">> \o Partition \o <<":", c.service, ":">> \o Region
    \o <<":">> \o Account \o <<":", c.resource, "/">> \o c.resourceName

\* What a mistaken prediction would be: the short form without the cluster.
ecsServiceArn_short ==
  formatArn([service |-> "ecs", resource |-> "service",
             resourceName |-> ecsServiceName])

\* const ecsServiceArn = this.formatArn({...})
ecsServiceArn ==
  formatArn([service |-> "ecs", resource |-> "service",
             resourceName |-> ecsClusterName \o <<"/">> \o ecsServiceName])

\* The identifier ECS gives a service: the example in the source is
\* arn:aws:ecs:eu-west-2:1234567:service/live-beats-cluster/live-beats-service
AssignedServiceArn(cluster, service) ==
  <<"arn", ":">> \o Partition \o <<":", "ecs", ":">> \o Region
    \o <<":">> \o Account \o <<":", "service", "/">>
    \o cluster \o <<"/">> \o service

\* The random part of a generated name or hostname, one per creation.
Digits == <<"1", "2", "3", "4", "5", "6", "7", "8", "9">>

\* The name the platform picks for a load balancer that is given none,
\* e.g. app-s-stagi-BBMFMLI304BC: it holds capital letters.
GeneratedLbName(g) == <<"app-s-stagi-", "B", "B", "M", Digits[g]>>

\* The hostname of a load balancer: its name, a number, the regional zone,
\* e.g. my-load-balancer-424835706.us-west-2.elb.amazonaws.com. The case of
\* the name is kept.
DnsName(name, g) ==
  name \o <<"-", Digits[g], ".">> \o Region \o <<".elb.amazonaws.com">>

\* ----------------------------------------------- aws-ec2: security groups

\* ec2.Peer.anyIpv4()
anyIpv4 == [kind |-> "cidr", id |-> "0.0.0.0/0"]

\* ec2.IpAddresses.cidr("10.0.0.0/21"), read back as props.vpc.vpcCidrBlock
vpcCidrBlock == "10.0.0.0/21"

\* ec2.Peer.ipv4(cidr)
ipv4(cidr) == [kind |-> "cidr", id |-> cidr]

\* A security group used as the peer of a rule.
sgPeer(g) == [kind |-> "sg", id |-> g]

\* ec2.Port.tcp(port)
tcp(port) == [protocol |-> "tcp", fromPort |-> port, toPort |-> port]

\* ec2.Port.allTcp()
allTcp == [protocol |-> "tcp", fromPort |-> 0, toPort |-> 65535]

\* ec2.Port.allTraffic()
allTraffic == [protocol |-> "-1", fromPort |-> 0, toPort |-> 65535]

Rule(dir, peer, port) ==
  [dir |-> dir, peer |-> peer, protocol |-> port.protocol,
   fromPort |-> port.fromPort, toPort |-> port.toPort]

\* new ec2.SecurityGroup(this, id, { vpc, description }) with allowAllOutbound
\* given explicitly.
SecurityGroupWith(vpcRef, allowAllOutbound) ==
  [vpc |-> vpcRef, allowAllOutbound |-> allowAllOutbound, ingress |-> {},
   egress |-> IF allowAllOutbound
              THEN {Rule("egress", anyIpv4, allTraffic)} ELSE {}]

\* new ec2.SecurityGroup(this, id, { vpc, description }): no rule is given;
\* allowAllOutbound is left out and so is true, which gives the group the one
\* outbound rule "all traffic to 0.0.0.0/0".
SecurityGroup(vpcRef) == SecurityGroupWith(vpcRef, TRUE)

\* securityGroup.addIngressRule(peer, port)
addIngressRule(sg, peer, port) ==
  [sg EXCEPT !.ingress = @ \cup {Rule("ingress", peer, port)}]

\* securityGroup.addEgressRule(peer, port): ignored by a group that already
\* allows all outbound traffic.
addEgressRule(sg, peer, port) ==
  IF sg.allowAllOutbound
  THEN sg
  ELSE [sg EXCEPT !.egress = @ \cup {Rule("egress", peer, port)}]

\* sg.connections.allowFrom(peer, port), seen from the group itself.
allowFrom(sg, peer, port) == addIngressRule(sg, peer, port)

\* sg.connections.allowTo(other, port), seen from the group itself.
allowTo(sg, peer, port) == addEgressRule(sg, peer, port)

\* What a bug would make of allowTo's other half: no rule on the far side.
allowToRemoteRule_none(g, other, port) == {}

\* sg.connections.allowTo(other, port), seen from the other side: the rule
\* "inbound from sg on port" attached to each security group of other, as a
\* resource of the calling stack.
allowToRemoteRule(g, other, port) ==
  {[groupId |-> o, rule |-> Rule("ingress", sgPeer(g), port)] : o \in other}

\* ------------------------------------------------------- FoundationStack

\* The network as it would be with tiers of twice the size (cidrMask: 22).
vpc_mask22 ==
  [cidr |-> vpcCidrBlock, natGateways |-> 0, maxAzs |-> 2,
   subnetConfiguration |->
     <<[cidrMask |-> 22, name |-> "public", subnetType |-> "PUBLIC"],
       [cidrMask |-> 22, name |-> "private",
        subnetType |-> "PRIVATE_ISOLATED"]>>]

vpc ==
  [cidr |-> vpcCidrBlock, natGateways |-> 0, maxAzs |-> 2,
   subnetConfiguration |->
     <<[cidrMask |-> 23, name |-> "public", subnetType |-> "PUBLIC"],
       [cidrMask |-> 23, name |-> "private",
        subnetType |-> "PRIVATE_ISOLATED"]>>]

RECURSIVE Pow2(_)
Pow2(n) == IF n = 0 THEN 1 ELSE 2 * Pow2(n - 1)

\* The number of addresses of a block with the given mask length.
BlockSize(mask) == Pow2(32 - mask)

\* "10.0.0.0/21" as numbers: the first address, 10 * 2^24, and the mask.
ParseCidr(c) ==
  CASE c = "10.0.0.0/21" -> [first |-> 10 * Pow2(24), mask |-> 21]

\* The first address at or after a that is a multiple of size.
AlignUp(a, size) == ((a + size - 1) \div size) * size

\* ec2.Vpc asks for the subnets of each subnetConfiguration entry in the
\* order written, one per availability zone.
SubnetRequests(v) ==
  [i \in 1..(Len(v.subnetConfiguration) * v.maxAzs) |->
     [config |-> v.subnetConfiguration[((i - 1) \div v.maxAzs) + 1],
      az |-> ((i - 1) % v.maxAzs) + 1]]

\* The blocks are handed out one after another from the start of the VPC's
\* block, each aligned to its own size.
RECURSIVE AllocateSubnets(_, _)
AllocateSubnets(reqs, cursor) ==
  IF reqs = <<>> THEN <<>>
  ELSE LET size == BlockSize(Head(reqs).config.cidrMask)
           first == AlignUp(cursor, size)
       IN  <<[name |-> Head(reqs).config.name,
              subnetType |-> Head(reqs).config.subnetType,
              az |-> Head(reqs).az,
              first |-> first, last |-> first + size - 1]>>
             \o AllocateSubnets(Tail(reqs), first + size)

\* The subnets of a VPC defined as v.
Subnets(v) == AllocateSubnets(SubnetRequests(v), ParseCidr(v.cidr).first)

\* Whether the route table of subnet sn of a VPC defined as v has a route to
\* the internet: a public subnet routes to the internet gateway, a private
\* subnet with egress to a NAT gateway if there is one, an isolated subnet
\* nowhere.
HasInternetRoute(v, sn) ==
  \/ sn.subnetType = "PUBLIC"
  \/ sn.subnetType = "PRIVATE_WITH_EGRESS" /\ v.natGateways > 0

\* --------------------------------------------------------- DatabaseStack

\* const dbPort = 5432
dbPort == 5432

\* The database's group as it would be if it were opened to the VPC block.
databaseSecurityGroup_vpcOpen ==
  allowFrom(SecurityGroup("vpc"), ipv4(vpcCidrBlock), tcp(5432))

databaseSecurityGroup == SecurityGroup("vpc")

databaseCredentialsSecret ==
  [generateSecretString |->
     [username |-> "postgres", generateStringKey |-> "password",
      excludePunctuation |-> TRUE, includeSpace |-> FALSE]]

database ==
  [vpc |-> "vpc", subnetType |-> "PRIVATE_ISOLATED", port |-> dbPort,
   securityGroups |-> {"databaseSecurityGroup"},
   publiclyAccessible |-> FALSE,
   credentials |-> "databaseCredentialsSecret"]

\* database.connections: the security groups of the database
databaseConnections == database.securityGroups

\* -------------------------------------------------------------- AppStack

\* containerPort: 4000, and the port of the target group
servicePort == 4000

\* The listener's port, and the one port the load balancer's group opens.
httpPort == 80

\* security group (ECS service's load balancer); the last line is the far
\* side of the service group's allowFrom.
ecsAlbSecurityGroup ==
  allowTo(addIngressRule(SecurityGroup("vpc"), anyIpv4, tcp(httpPort)),
          sgPeer("ecsServiceSecurityGroup"), tcp(servicePort))

\* The service's group as it would be if port 4000 were opened to any address.
ecsServiceSecurityGroup_open ==
  allowTo(
    allowFrom(
      allowFrom(SecurityGroup("vpc"), anyIpv4, tcp(servicePort)),
      ipv4(vpcCidrBlock), allTcp),
    sgPeer("databaseSecurityGroup"), tcp(5432))

\* The service's group as it would be with the rule for the other nodes
\* locked down to port 4369.
ecsServiceSecurityGroup_locked ==
  allowTo(
    allowFrom(
      allowFrom(SecurityGroup("vpc"),
                sgPeer("ecsAlbSecurityGroup"), tcp(servicePort)),
      ipv4(vpcCidrBlock), tcp(4369)),
    sgPeer("databaseSecurityGroup"), tcp(5432))

\* security group (ECS service)
ecsServiceSecurityGroup ==
  allowTo(
    allowFrom(
      allowFrom(SecurityGroup("vpc"),
                sgPeer("ecsAlbSecurityGroup"), tcp(servicePort)),
      ipv4(vpcCidrBlock), allTcp),
    sgPeer("databaseSecurityGroup"), tcp(5432))

\* ecsServiceSecurityGroup.connections.allowTo(props.database, Port.tcp(5432)),
\* the far side: the rules it attaches to the database's security group.
databaseIngressRule ==
  [attach |-> allowToRemoteRule("ecsServiceSecurityGroup",
                                databaseConnections, tcp(5432))]

\* The task role as it would be if it were also allowed to read secrets.
taskRole_readsSecrets ==
  [assumedBy |-> "ecs-tasks.amazonaws.com",
   actions |->
     {"ssmmessages:CreateControlChannel", "ssmmessages:CreateDataChannel",
      "ssmmessages:OpenControlChannel", "ssmmessages:OpenDataChannel",
      "ecs:ListServices", "ecs:ListTasks", "ecs:DescribeTasks",
      "logs:CreateLogGroup", "logs:CreateLogStream",
      "logs:DescribeLogStreams", "logs:PutRetentionPolicy",
      "logs:PutLogEvents", "secretsmanager:GetSecretValue"}]

taskRole ==
  [assumedBy |-> "ecs-tasks.amazonaws.com",
   actions |->
     {"ssmmessages:CreateControlChannel", "ssmmessages:CreateDataChannel",
      "ssmmessages:OpenControlChannel", "ssmmessages:OpenDataChannel",
      "ecs:ListServices", "ecs:ListTasks", "ecs:DescribeTasks",
      "logs:CreateLogGroup", "logs:CreateLogStream",
      "logs:DescribeLogStreams", "logs:PutRetentionPolicy",
      "logs:PutLogEvents"}]

executionRole ==
  [assumedBy |-> "ecs-tasks.amazonaws.com",
   actions |->
     {"ecr:GetAuthorizationToken", "ecr:BatchCheckLayerAvailability",
      "ecr:GetDownloadUrlForLayer", "ecr:BatchGetImage",
      "logs:CreateLogStream", "logs:PutLogEvents",
      "ssm:GetParameters", "secretsmanager:GetSecretValue", "kms:Decrypt"}]

ecsCluster == [clusterName |-> ecsClusterName, vpc |-> "vpc"]

ecsLoadBalancer ==
  [loadBalancerName |-> loadBalancerName, vpc |-> "vpc",
   internetFacing |-> TRUE, securityGroup |-> "ecsAlbSecurityGroup"]

lbListener == [loadBalancer |-> "ecsLoadBalancer", port |-> httpPort]

\* this.ecsLoadBalancer.loadBalancerDnsName at definition time: a token that
\* stands for the hostname until the load balancer exists.
loadBalancerDnsName == <<"${Token[ecsLoadBalancer.DNSName]}">>

\* generateSecretString of the four generated secrets
secretKeyBaseSecret == [passwordLength |-> 64, excludePunctuation |-> TRUE]

releaseCookieSecret == [passwordLength |-> 64, excludePunctuation |-> TRUE]

\* The secret as it would be if its definition carried the value it holds,
\* read back each time the program runs.
liveBeatsGitHubClientIdSecret_valued ==
  [passwordLength |-> 32, excludePunctuation |-> TRUE,
   secretString |-> secretValue["liveBeatsGitHubClientIdSecret"]]

liveBeatsGitHubClientIdSecret ==
  [passwordLength |-> 32, excludePunctuation |-> TRUE]

liveBeatsGitHubClientSecretSecret ==
  [passwordLength |-> 32, excludePunctuation |-> TRUE]

\* The value a secret holds, as a string: who wrote it stands for what was
\* written.
SecretStringOf(s, w) == <<"SecretString[", s, "]", w>>

SecretString(s) == SecretStringOf(s, secretValue[s])

\* secret.secretArn at definition time: a token for the secret's identifier
secretArn(s) == <<"${Token[", s, ".Arn]}">>

\* The container's environment as it would be if the database password were
\* read from the secret and passed as a plain variable.
containerEnvironment_withPassword ==
  [PHX_HOST |-> loadBalancerDnsName,
   POOL_SIZE |-> <<"2">>,
   AWS_ECS_CLUSTER_REGION |-> Region,
   AWS_ECS_CLUSTER_NAME |-> ecsClusterName,
   AWS_ECS_SERVICE_ARN |-> ecsServiceArn,
   DB_NAME |-> <<"postgres">>,
   DB_PASSWORD |-> SecretString("databaseCredentialsSecret")]

\* environment: { ... } of the container
containerEnvironment ==
  [PHX_HOST |-> loadBalancerDnsName,
   POOL_SIZE |-> <<"2">>,
   AWS_ECS_CLUSTER_REGION |-> Region,
   AWS_ECS_CLUSTER_NAME |-> ecsClusterName,
   AWS_ECS_SERVICE_ARN |-> ecsServiceArn,
   DB_NAME |-> <<"postgres">>]

\* taskDefinition, with its two roles and the container added to it
taskDefinition ==
  [cpu |-> 256, memoryLimitMiB |-> 512,
   taskRole |-> taskRole, executionRole |-> executionRole,
   containerPort |-> servicePort,
   environment |-> containerEnvironment,
   secrets |->
     [DB_USERNAME |-> <<"databaseCredentialsSecretArn", "username">>,
      DB_PASSWORD |-> <<"databaseCredentialsSecretArn", "password">>,
      DB_HOST |-> <<"databaseCredentialsSecretArn", "host">>,
      DB_PORT |-> <<"databaseCredentialsSecretArn", "port">>,
      SECRET_KEY_BASE |-> <<"secretKeyBaseSecret">>,
      RELEASE_COOKIE |-> <<"releaseCookieSecret">>,
      LIVE_BEATS_GITHUB_CLIENT_ID |-> <<"liveBeatsGitHubClientIdSecret">>,
      LIVE_BEATS_GITHUB_CLIENT_SECRET |->
        <<"liveBeatsGitHubClientSecretSecret">>]]

\* What FargateService would use if desiredCount were left out.
ServiceDesiredCount_default == 1

\* desiredCount: 0 as written, until the operator edits the line
ServiceDesiredCount == desiredCount

ecsService ==
  [serviceName |-> ecsServiceName, cluster |-> "ecsCluster",
   taskDefinition |-> "taskDefinition",
   desiredCount |-> ServiceDesiredCount,
   securityGroups |-> {"ecsServiceSecurityGroup"},
   assignPublicIp |-> TRUE, circuitBreaker |-> [rollback |-> TRUE],
   minHealthyPercent |-> 50, maxHealthyPercent |-> 500,
   enableExecuteCommand |-> TRUE, subnetType |-> "PUBLIC"]

lbTargetGroup ==
  [port |-> servicePort, protocol |-> "HTTP", targets |-> {"ecsService"},
   healthCheck |->
     [path |-> "/signin", healthyThresholdCount |-> 2,
      unhealthyThresholdCount |-> 2, interval |-> 5, timeout |-> 3],
   deregistrationDelay |-> 10]

\* ---------------------------------------------------------- RoutingStack

accelerator == [enabled |-> TRUE]

acceleratorListener ==
  [accelerator |-> "accelerator", clientAffinity |-> "SOURCE_IP",
   fromPort |-> httpPort]

\* The endpoint group as it would be if adding the load balancer as an
\* endpoint also opened the load balancer's security group to the accelerator.
acceleratorEndpointGroup_opensEdge ==
  [listener |-> "acceleratorListener", healthCheckInterval |-> 5,
   healthCheckPath |-> "/signin", healthCheckThreshold |-> 1,
   endpoint |-> "ecsLoadBalancer", preserveClientIp |-> TRUE,
   weight |-> 128,
   attach |-> {[groupId |-> "ecsAlbSecurityGroup",
                rule |-> Rule("ingress", anyIpv4, tcp(443))]}]

acceleratorEndpointGroup ==
  [listener |-> "acceleratorListener", healthCheckInterval |-> 5,
   healthCheckPath |-> "/signin", healthCheckThreshold |-> 1,
   endpoint |-> "ecsLoadBalancer", preserveClientIp |-> TRUE,
   weight |-> 128]

\* --------------------------------------------------- the synthesized app

\* The definition of each resource, as the constructors leave it.
Definition(r) ==
  CASE r = "vpc"                       -> vpc
    [] r = "databaseSecurityGroup"     -> databaseSecurityGroup
    [] r = "databaseCredentialsSecret" -> databaseCredentialsSecret
    [] r = "database"                  -> database
    [] r = "ecsAlbSecurityGroup"       -> ecsAlbSecurityGroup
    [] r = "ecsServiceSecurityGroup"   -> ecsServiceSecurityGroup
    [] r = "databaseIngressRule"       -> databaseIngressRule
    [] r = "taskDefinition"            -> taskDefinition
    [] r = "ecsCluster"                -> ecsCluster
    [] r = "ecsLoadBalancer"           -> ecsLoadBalancer
    [] r = "lbListener"                -> lbListener
    [] r = "lbTargetGroup"             -> lbTargetGroup
    [] r = "secretKeyBaseSecret"       -> secretKeyBaseSecret
    [] r = "releaseCookieSecret"       -> releaseCookieSecret
    [] r = "liveBeatsGitHubClientIdSecret" -> liveBeatsGitHubClientIdSecret
    [] r = "liveBeatsGitHubClientSecretSecret" ->
         liveBeatsGitHubClientSecretSecret
    [] r = "ecsService"                -> ecsService
    [] r = "accelerator"               -> accelerator
    [] r = "acceleratorListener"       -> acceleratorListener
    [] r = "acceleratorEndpointGroup"  -> acceleratorEndpointGroup

\* new cdk.CfnOutput(this, name, { value }): what each stack prints when it
\* is deployed (those of DatabaseStack are commented out).
Outputs(s) ==
  CASE s = FoundationId -> {}
    [] s = DatabaseId   -> {}
    [] s = AppId ->
         {loadBalancerDnsName, secretArn("liveBeatsGitHubClientIdSecret"),
          secretArn("liveBeatsGitHubClientSecretSecret")}
    [] s = RoutingId    -> {<<"${Token[accelerator.DnsName]}">>}

NoDefinition == [absent |-> TRUE]

NoEnv == [k \in DOMAIN taskDefinition.environment |-> NoValue]

NoService == [desiredCount |-> 0, serviceArn |-> NoValue]

NoCmd == [op |-> "none", target |-> "none", phase |-> "none"]

\* ------------------------------------------------ bin/live-beats-aws.ts

\* The program with the database stack written before the foundation stack.
Main_databaseFirst ==
  <<DatabaseId, FoundationId, AppId>>
    \o (IF routing THEN <<RoutingId>> ELSE <<>>)

\* The constructor calls of the program, in the order they are written. The
\* optional RoutingStack needs appStack.ecsLoadBalancer and so can only be
\* written after appStack.
Main ==
  <<FoundationId, DatabaseId, AppId>>
    \o (IF routing THEN <<RoutingId>> ELSE <<>>)

Wired == {Main[i] : i \in 1..Len(Main)}

Init ==
  /\ stage \in Stages
  /\ appName \in AppNames
  /\ routing \in BOOLEAN
  /\ desiredCount = 0
  /\ cmd = NoCmd
  /\ pc = 0
  /\ handles = {}
  /\ refs = {}
  /\ queue = <<>>
  /\ stackStatus = [s \in Stacks |-> "NONE"]
  /\ exists = {}
  /\ gen = [r \in AllResources |-> 0]
  /\ applied = [r \in AllResources |-> NoDefinition]
  /\ rules = [g \in SecurityGroups |-> {}]
  /\ lbDnsName = NoValue
  /\ clusterName = NoValue
  /\ secretValue = [s \in Secrets |-> "none"]
  /\ taskEnv = NoEnv
  /\ svc = NoService
  /\ replicas = <<>>

\* The stacks a stack takes a handle from, directly.
Owners(s) == {p.owner : p \in Props(s)}

\* The stacks that take a handle from s, directly.
Dependents(s) == {t \in Stacks : s \in Owners(t)}

UpstreamStep(S) == S \cup UNION {Owners(s) : s \in S}

\* s and every stack it depends on, directly or not.
Upstream(s) == UpstreamStep(UpstreamStep(UpstreamStep({s})))

\* new XStack(app, id, { ..., handle: owner.handle }): reads the handles its
\* props name and assigns its own public fields.
New(s) ==
  /\ cmd.phase = "synth"
  /\ pc \in 1..Len(Main)
  /\ Main[pc] = s
  /\ refs' = refs \cup
       {[consumer |-> s, handle |-> p.handle, owner |-> p.owner,
         resolved |-> p \in handles] : p \in Props(s)}
  /\ handles' = handles \cup {[handle |-> h, owner |-> s] : h \in Exports(s)}
  /\ pc' = pc + 1
  /\ UNCHANGED <<inputVars, desiredCount, cmd, queue, accountVars>>

NewFoundationStack == New(FoundationId)

NewDatabaseStack == New(DatabaseId)

NewAppStack == New(AppId)

NewRoutingStack == New(RoutingId)

\* ------------------------------------------------------- the cdk commands

Complete == {"CREATE_COMPLETE", "UPDATE_COMPLETE"}

\* cdk deploy <stack>: runs the program, then deploys the stack after the
\* stacks it depends on.
CdkDeploy(s) ==
  /\ cmd.op = "none"
  /\ s \in Wired
  /\ \A t \in Upstream(s) : \A r \in Resources(t) :
       r \notin exists => gen[r] < MaxGen
  /\ cmd' = [op |-> "deploy", target |-> s, phase |-> "synth"]
  /\ pc' = 1
  /\ handles' = {}
  /\ refs' = {}
  /\ UNCHANGED <<inputVars, desiredCount, queue, accountVars>>

\* cdk destroy <stack>, in the order the README gives: a stack is destroyed
\* once every stack that depends on it is gone.
CdkDestroy(s) ==
  /\ cmd.op = "none"
  /\ s \in Wired
  /\ stackStatus[s] \in Complete
  /\ \A t \in Dependents(s) : stackStatus[t] = "NONE"
  /\ cmd' = [op |-> "destroy", target |-> s, phase |-> "synth"]
  /\ pc' = 1
  /\ handles' = {}
  /\ refs' = {}
  /\ UNCHANGED <<inputVars, desiredCount, queue, accountVars>>

\* The stacks the program's reads make s depend on, s included.
RefOwners(S) == S \cup {x.owner : x \in {y \in refs : y.consumer \in S}}

RefUpstream(s) == RefOwners(RefOwners(RefOwners({s})))

\* The program has run to its end: the command selects its stacks, a
\* deployment taking them in the order they were defined.
Synthesized ==
  /\ cmd.phase = "synth"
  /\ pc = Len(Main) + 1
  /\ cmd' = [cmd EXCEPT !.phase = "run"]
  /\ queue' = IF cmd.op = "deploy"
              THEN SelectSeq(Main, LAMBDA t : t \in RefUpstream(cmd.target))
              ELSE <<cmd.target>>
  /\ UNCHANGED <<inputVars, desiredCount, synthVars, accountVars>>

CommandDone ==
  /\ cmd.phase = "run"
  /\ queue = <<>>
  /\ cmd' = NoCmd
  /\ pc' = 0
  /\ handles' = {}
  /\ refs' = {}
  /\ UNCHANGED <<inputVars, desiredCount, queue, accountVars>>

\* ------------------------------------------------- the provisioning engine

Running(op) == cmd.phase = "run" /\ cmd.op = op /\ queue # <<>>

\* The rules a security group's own definition carries.
InlineRules(d) ==
  IF "ingress" \in DOMAIN d THEN d.ingress \cup d.egress ELSE {}

\* The rules a rule resource attaches to group g.
AttachedRules(d, g) ==
  IF "attach" \in DOMAIN d
  THEN {a.rule : a \in {x \in d.attach : x.groupId = g}}
  ELSE {}

\* A definition-time value, with the token of the load balancer's hostname
\* replaced by the hostname.
Resolve(v) == IF v = loadBalancerDnsName THEN lbDnsName ELSE v

\* The name a resource gets: the one its definition gives, else one the
\* platform generates.
NameOr(given, generated) == IF given = NoValue THEN generated ELSE given

\* What creating (or re-applying) resource r as its g-th physical resource
\* does to the account.
Provision(r, g) ==
  LET d == Definition(r) IN
  /\ rules' =
       [x \in SecurityGroups |->
          IF x = r
          THEN (rules[x] \ InlineRules(applied[r])) \cup InlineRules(d)
          ELSE (rules[x] \ AttachedRules(applied[r], x))
                 \cup AttachedRules(d, x)]
  /\ lbDnsName' =
       IF r = "ecsLoadBalancer"
       THEN DnsName(NameOr(d.loadBalancerName, GeneratedLbName(g)), g)
       ELSE lbDnsName
  /\ clusterName' =
       IF r = "ecsCluster"
       THEN NameOr(d.clusterName, <<"app-stack-ecscluster-", Digits[g]>>)
       ELSE clusterName
  /\ taskEnv' =
       IF r = "taskDefinition"
       THEN [k \in DOMAIN d.environment |-> Resolve(d.environment[k])]
       ELSE taskEnv
  /\ svc' =
       IF r = "ecsService"
       THEN [desiredCount |-> d.desiredCount,
             serviceArn |->
               AssignedServiceArn(
                 clusterName,
                 NameOr(d.serviceName, <<"app-stack-ecsservice-", Digits[g]>>))]
       ELSE svc
  /\ secretValue' =
       IF r \in Secrets /\ secretValue[r] = "none"
       THEN [secretValue EXCEPT ![r] = "generated"]
       ELSE secretValue

\* What deleting resource r does to the account.
Unprovision(r) ==
  /\ rules' =
       [x \in SecurityGroups |->
          IF x = r THEN {} ELSE rules[x] \ AttachedRules(applied[r], x)]
  /\ lbDnsName' = IF r = "ecsLoadBalancer" THEN NoValue ELSE lbDnsName
  /\ clusterName' = IF r = "ecsCluster" THEN NoValue ELSE clusterName
  /\ taskEnv' = IF r = "taskDefinition" THEN NoEnv ELSE taskEnv
  /\ svc' = IF r = "ecsService" THEN NoService ELSE svc
  /\ secretValue' =
       IF r \in Secrets THEN [secretValue EXCEPT ![r] = "none"]
       ELSE secretValue

\* The resources of stack s whose definition differs from the applied one.
Changed(s) ==
  {r \in Resources(s) : r \in exists /\ applied[r] # Definition(r)}

\* The properties the platform changes on the existing resource; a change
\* of any other property replaces the resource by a new one.
InPlaceProps ==
  {"desiredCount", "minHealthyPercent", "maxHealthyPercent",
   "circuitBreaker", "enableExecuteCommand", "securityGroups",
   "ingress", "egress", "actions", "healthCheck", "deregistrationDelay"}

BeginCreate ==
  /\ Running("deploy")
  /\ stackStatus[Head(queue)] = "NONE"
  /\ stackStatus' = [stackStatus EXCEPT ![Head(queue)] = "CREATE_IN_PROGRESS"]
  /\ UNCHANGED <<inputVars, desiredCount, cmd, synthVars, queue, exists, gen,
                 applied, physVars, replicas>>

CreateResource(r) ==
  /\ Running("deploy")
  /\ stackStatus[Head(queue)] = "CREATE_IN_PROGRESS"
  /\ r \in Resources(Head(queue)) \ exists
  /\ Deps(r) \subseteq exists
  /\ exists' = exists \cup {r}
  /\ gen' = [gen EXCEPT ![r] = @ + 1]
  /\ applied' = [applied EXCEPT ![r] = Definition(r)]
  /\ Provision(r, gen[r] + 1)
  /\ UNCHANGED <<inputVars, desiredCount, cmd, synthVars, queue, stackStatus,
                 replicas>>

CompleteCreate ==
  /\ Running("deploy")
  /\ stackStatus[Head(queue)] = "CREATE_IN_PROGRESS"
  /\ Resources(Head(queue)) \subseteq exists
  /\ stackStatus' = [stackStatus EXCEPT ![Head(queue)] = "CREATE_COMPLETE"]
  /\ queue' = Tail(queue)
  /\ UNCHANGED <<inputVars, desiredCount, cmd, synthVars, exists, gen,
                 applied, physVars, replicas>>

\* The stack is deployed and its definitions are the applied ones.
NoChanges ==
  /\ Running("deploy")
  /\ stackStatus[Head(queue)] \in Complete
  /\ Changed(Head(queue)) = {}
  /\ queue' = Tail(queue)
  /\ UNCHANGED <<inputVars, desiredCount, cmd, synthVars, accountVars>>

BeginUpdate ==
  /\ Running("deploy")
  /\ stackStatus[Head(queue)] \in Complete
  /\ Changed(Head(queue)) # {}
  /\ stackStatus' = [stackStatus EXCEPT ![Head(queue)] = "UPDATE_IN_PROGRESS"]
  /\ UNCHANGED <<inputVars, desiredCount, cmd, synthVars, queue, exists, gen,
                 applied, physVars, replicas>>

UpdateResource(r) ==
  /\ Running("deploy")
  /\ stackStatus[Head(queue)] = "UPDATE_IN_PROGRESS"
  /\ r \in Changed(Head(queue))
  /\ LET d == Definition(r)
         fields == {f \in DOMAIN d : applied[r][f] # d[f]}
         replace == ~(fields \subseteq InPlaceProps)
         g == IF replace THEN gen[r] + 1 ELSE gen[r]
     IN  /\ gen' = [gen EXCEPT ![r] = g]
         /\ Provision(r, g)
         /\ replicas' = IF replace /\ r \in {"ecsService", "taskDefinition"}
                        THEN <<>> ELSE replicas
  /\ applied' = [applied EXCEPT ![r] = Definition(r)]
  /\ UNCHANGED <<inputVars, desiredCount, cmd, synthVars, queue, stackStatus,
                 exists>>

CompleteUpdate ==
  /\ Running("deploy")
  /\ stackStatus[Head(queue)] = "UPDATE_IN_PROGRESS"
  /\ Changed(Head(queue)) = {}
  /\ stackStatus' = [stackStatus EXCEPT ![Head(queue)] = "UPDATE_COMPLETE"]
  /\ queue' = Tail(queue)
  /\ UNCHANGED <<inputVars, desiredCount, cmd, synthVars, exists, gen,
                 applied, physVars, replicas>>

BeginDelete ==
  /\ Running("destroy")
  /\ stackStatus[Head(queue)] \in Complete
  /\ stackStatus' = [stackStatus EXCEPT ![Head(queue)] = "DELETE_IN_PROGRESS"]
  /\ UNCHANGED <<inputVars, desiredCount, cmd, synthVars, queue, exists, gen,
                 applied, physVars, replicas>>

DeleteResource(r) ==
  /\ Running("destroy")
  /\ stackStatus[Head(queue)] = "DELETE_IN_PROGRESS"
  /\ r \in Resources(Head(queue)) \cap exists
  /\ \A x \in exists : r \notin Deps(x)
  /\ exists' = exists \ {r}
  /\ applied' = [applied EXCEPT ![r] = NoDefinition]
  /\ Unprovision(r)
  /\ replicas' = IF r = "ecsService" THEN <<>> ELSE replicas
  /\ UNCHANGED <<inputVars, desiredCount, cmd, synthVars, queue, stackStatus,
                 gen>>

CompleteDelete ==
  /\ Running("destroy")
  /\ stackStatus[Head(queue)] = "DELETE_IN_PROGRESS"
  /\ Resources(Head(queue)) \cap exists = {}
  /\ stackStatus' = [stackStatus EXCEPT ![Head(queue)] = "NONE"]
  /\ queue' = Tail(queue)
  /\ UNCHANGED <<inputVars, desiredCount, cmd, synthVars, exists, gen,
                 applied, physVars, replicas>>

\* -------------------------------------------------------- the ECS service

\* The service starts a task while fewer run than it desires; the task gets
\* the environment of the task definition as it is then, and the values of
\* its secrets are fetched for it under the execution role.
StartReplica ==
  /\ "ecsService" \in exists
  /\ Len(replicas) < svc.desiredCount
  /\ "secretsmanager:GetSecretValue"
       \in applied["taskDefinition"].executionRole.actions
  /\ replicas' = Append(replicas, taskEnv)
  /\ UNCHANGED <<inputVars, desiredCount, cmd, synthVars, queue, stackStatus,
                 exists, gen, applied, physVars>>

\* ------------------------------------------------------------ the operator

\* README, "Start the app" value
StartCount == 2

\* README, "Start the app": change desiredCount: 0 to desiredCount: 2.
EditDesiredCount ==
  /\ cmd.op = "none"
  /\ desiredCount = 0
  /\ desiredCount' = StartCount
  /\ UNCHANGED <<inputVars, cmd, synthVars, queue, accountVars>>

\* README: aws secretsmanager update-secret --secret-id <arn> --secret-string ...
UpdateSecret(s) ==
  /\ cmd.op = "none"
  /\ s \in exists
  /\ secretValue[s] = "generated"
  /\ secretValue' = [secretValue EXCEPT ![s] = "operator"]
  /\ UNCHANGED <<inputVars, desiredCount, cmd, synthVars, queue, stackStatus,
                 exists, gen, applied, rules, lbDnsName, clusterName, taskEnv,
                 svc, replicas>>

Next ==
  \/ \E s \in Stacks : CdkDeploy(s)
  \/ \E s \in Stacks : CdkDestroy(s)
  \/ NewFoundationStack
  \/ NewDatabaseStack
  \/ NewAppStack
  \/ NewRoutingStack
  \/ Synthesized
  \/ CommandDone
  \/ BeginCreate
  \/ \E r \in AllResources : CreateResource(r)
  \/ CompleteCreate
  \/ NoChanges
  \/ BeginUpdate
  \/ \E r \in AllResources : UpdateResource(r)
  \/ CompleteUpdate
  \/ BeginDelete
  \/ \E r \in AllResources : DeleteResource(r)
  \/ CompleteDelete
  \/ StartReplica
  \/ EditDesiredCount
  \/ \E s \in OAuthSecrets : UpdateSecret(s)

Spec == Init /\ [][Next]_vars

\* ------------------------------------------------------------------ claims

\* The dependency order the specification gives the components.
Order(s) ==
  CASE s = FoundationId -> 1
    [] s = DatabaseId   -> 2
    [] s = AppId        -> 3
    [] s = RoutingId    -> 4

\* C1: every cross-stack read of a stack is of a handle its owner exports
\* (vpc; database, databaseCredentialsSecretArn; ecsLoadBalancer), the owner
\* comes strictly earlier in the order Foundation, Database, App, Routing (so
\* the reference graph has no cycle), and a resource refers to a resource of
\* another stack only through such a handle.
C1_ReferencesEarlierExports ==
  /\ \A x \in refs :
       /\ x.handle \in Exports(x.owner)
       /\ x.handle \in {"vpc", "database", "databaseCredentialsSecretArn",
                        "ecsLoadBalancer"}
       /\ Order(x.owner) < Order(x.consumer)
  /\ \A s \in Stacks : pc > 0 /\ (\E i \in 1..(pc - 1) : Main[i] = s) =>
       \A r \in Resources(s) : \A d \in Deps(r) :
         StackOf(d) # s =>
           \E x \in refs :
             /\ x.consumer = s
             /\ x.owner = StackOf(d)
             /\ d \in HandleResources(x.handle)

\* C1 witness: the program has constructed all four stacks, RoutingStack
\* included, and their reads are recorded.
C1_Witness ==
  /\ pc = 5
  /\ \E x \in refs : x.consumer = RoutingId /\ x.handle = "ecsLoadBalancer"
  /\ \E x \in refs : x.consumer = AppId /\ x.handle = "database"

InProgress ==
  {"CREATE_IN_PROGRESS", "UPDATE_IN_PROGRESS", "DELETE_IN_PROGRESS"}

\* A stack whose creation has completed and that has not been torn down.
Produced(s) ==
  /\ stackStatus[s] \in Complete \cup {"UPDATE_IN_PROGRESS"}
  /\ Resources(s) \subseteq exists

\* C2: a stack is constructed only when every handle it reads has been
\* assigned, a stack has resources only while every stack it takes a handle
\* from is completely created, a resource exists only when everything it
\* refers to exists, and at most one stack is being changed at a time.
C2_ConsumersAfterProducers ==
  /\ \A x \in refs : x.resolved
  /\ \A s \in Stacks :
       (stackStatus[s] # "NONE" \/ Resources(s) \cap exists # {}) =>
         \A o \in Owners(s) : Produced(o)
  /\ \A r \in exists : Deps(r) \subseteq exists
  /\ Cardinality({s \in Stacks : stackStatus[s] \in InProgress}) <= 1

\* C2 witness: the app stack is half created: its load balancer exists and its
\* service does not yet, on top of the two complete stacks it reads from.
C2_Witness ==
  /\ stackStatus[AppId] = "CREATE_IN_PROGRESS"
  /\ "ecsLoadBalancer" \in exists
  /\ "ecsService" \notin exists
  /\ stackStatus[DatabaseId] = "CREATE_COMPLETE"

\* Where traffic can come from or go to: the public internet, or an address
\* inside the VPC that is a member of one security group or of none.
Endpoints ==
  {[net |-> "internet", group |-> "none"], [net |-> "vpc", group |-> "none"]}
    \cup {[net |-> "vpc", group |-> g] : g \in SecurityGroups}

Internet == [net |-> "internet", group |-> "none"]

\* Whether the peer of a rule covers endpoint e.
PeerCovers(peer, e) ==
  CASE peer = anyIpv4          -> TRUE
    [] peer = ipv4(vpcCidrBlock) -> e.net = "vpc"
    [] peer.kind = "sg"        -> e.group = peer.id
    [] OTHER                   -> FALSE

\* The ports and protocols the claims look at (4369 stands for any port that
\* no rule names).
Ports == {httpPort, servicePort, 5432, 4369}

Protocols == {"tcp", "udp"}

\* Whether a set of rules lets traffic of the given protocol and port pass
\* in direction dir from or to endpoint e.
AdmitsBy(ruleSet, dir, e, protocol, port) ==
  \E x \in ruleSet :
    /\ x.dir = dir
    /\ PeerCovers(x.peer, e)
    /\ \/ x.protocol = "-1"
       \/ x.protocol = protocol /\ x.fromPort <= port /\ port <= x.toPort

\* Whether security group g, as it is in the account, does.
Admits(g, dir, e, protocol, port) ==
  AdmitsBy(rules[g], dir, e, protocol, port)

Ingress(g) == {x \in rules[g] : x.dir = "ingress"}

Egress(g) == {x \in rules[g] : x.dir = "egress"}

\* The one rule allowTo puts on the database's security group.
AppToDatabase == Rule("ingress", sgPeer("ecsServiceSecurityGroup"), tcp(5432))

C5_Original ==
  (stage = BinStage /\ stackStatus[AppId] \in Complete) =>
    /\ \A e \in Endpoints :
         Admits("ecsServiceSecurityGroup", "ingress", e, "tcp", servicePort)
           => e.group = "ecsAlbSecurityGroup"
    /\ \A e \in Endpoints :
         Admits("ecsServiceSecurityGroup", "egress", e, "tcp", 5432)
           => e.group = "databaseSecurityGroup"
    /\ \A x \in Ingress("ecsServiceSecurityGroup") : x.peer # anyIpv4
    /\ \A g \in SecurityGroups : \A p \in Ports : \A q \in Protocols :
         Admits(g, "ingress", Internet, q, p)
           => g = "ecsAlbSecurityGroup" /\ p = httpPort /\ q = "tcp"

\* C5, amended: the service's group admits inbound TCP 4000 from the load
\* balancer's group and, as on every TCP port, from any address inside the
\* VPC block, and from nowhere else; it has no inbound rule from 0.0.0.0/0
\* and admits nothing inbound from the internet; its outbound side is the
\* default rule, which admits TCP 5432 to the database and is not limited
\* to it; only the load balancer's group admits inbound traffic from
\* anywhere, and only on TCP port 80.
C5_ServiceGroupRules ==
  (stage = BinStage /\ stackStatus[AppId] \in Complete) =>
    /\ \A e \in Endpoints : \A p \in Ports :
         /\ Admits("ecsServiceSecurityGroup", "ingress", e, "tcp", p)
              <=> e.net = "vpc"
         /\ ~Admits("ecsServiceSecurityGroup", "ingress", e, "udp", p)
    /\ Ingress("ecsServiceSecurityGroup") =
         {Rule("ingress", sgPeer("ecsAlbSecurityGroup"), tcp(servicePort)),
          Rule("ingress", ipv4(vpcCidrBlock), allTcp)}
    /\ \A e \in Endpoints : \A p \in Ports : \A q \in Protocols :
         Admits("ecsServiceSecurityGroup", "egress", e, q, p)
    /\ \A g \in SecurityGroups : \A p \in Ports : \A q \in Protocols :
         Admits(g, "ingress", Internet, q, p)
           <=> (g = "ecsAlbSecurityGroup" /\ p = httpPort /\ q = "tcp")

\* C5 witness: AppStack is deployed for stage "staging" and its service runs
\* behind the two groups.
C5_Witness ==
  /\ stage = BinStage
  /\ stackStatus[AppId] \in Complete
  /\ Len(replicas) > 0
  /\ Admits("ecsServiceSecurityGroup", "ingress",
            [net |-> "vpc", group |-> "ecsAlbSecurityGroup"], "tcp",
            servicePort)

\* C6: once the service exists, the identifier computed at definition time
\* and injected as AWS_ECS_SERVICE_ARN, in the task definition and in every
\* running task, equals the identifier the platform gave the service.
C6_PredictedArnIsAssigned ==
  "ecsService" \in exists =>
    /\ svc.serviceArn # NoValue
    /\ taskEnv.AWS_ECS_SERVICE_ARN = svc.serviceArn
    /\ \A i \in 1..Len(replicas) :
         replicas[i].AWS_ECS_SERVICE_ARN = svc.serviceArn

\* C6 witness: the service exists under its chosen names and a task runs.
C6_Witness ==
  /\ "ecsService" \in exists
  /\ clusterName = ecsClusterName
  /\ Len(replicas) > 0
  /\ replicas[1].AWS_ECS_SERVICE_ARN = svc.serviceArn

\* C7, as claimed: the PHX_HOST of the task definition is the lowercase form
\* of the load balancer's hostname and holds no capital letter, whatever
\* stage and appName are.
C7_Claim ==
  "taskDefinition" \in exists =>
    /\ taskEnv.PHX_HOST = ToLower(lbDnsName)
    /\ ~HasUpper(taskEnv.PHX_HOST)

\* C8: the service exists only once the load balancer does and its hostname
\* is set; the task definition and every running task hold exactly the load
\* balancer's hostname as PHX_HOST.
C8_HostnameBeforeService ==
  /\ "ecsService" \in exists =>
       "ecsLoadBalancer" \in exists /\ lbDnsName # NoValue
  /\ "taskDefinition" \in exists => taskEnv.PHX_HOST = lbDnsName
  /\ \A i \in 1..Len(replicas) :
       replicas[i].PHX_HOST = lbDnsName /\ lbDnsName # NoValue

\* C8 witness: two tasks run, started with the load balancer's hostname.
C8_Witness ==
  /\ Len(replicas) = StartCount
  /\ replicas[1].PHX_HOST = lbDnsName
  /\ lbDnsName = DnsName(loadBalancerName, 1)

\* The steps of a re-deployment of AppStack.
Redeploying ==
  stackStatus[AppId] = "UPDATE_IN_PROGRESS"
    \/ stackStatus'[AppId] = "UPDATE_IN_PROGRESS"

\* C9: a re-deployment of AppStack after desiredCount is changed from 0 to 2
\* changes the service's desired count and nothing else: no resource is
\* created, deleted or replaced, every other resource keeps its applied
\* definition, and rules, hostname, names, environment, secret values and
\* the service's identifier stay as they are.
C9_OnlyDesiredCountChanges ==
  [][Redeploying =>
       /\ exists' = exists
       /\ gen' = gen
       /\ \A r \in AllResources \ {"ecsService"} : applied'[r] = applied[r]
       /\ \A f \in DOMAIN ecsService \ {"desiredCount"} :
            applied'["ecsService"][f] = applied["ecsService"][f]
       /\ svc'.serviceArn = svc.serviceArn
       /\ svc'.desiredCount \in {svc.desiredCount, StartCount}
       /\ UNCHANGED <<rules, lbDnsName, clusterName, taskEnv, secretValue>>
       /\ \A i \in 1..Len(replicas) :
            i <= Len(replicas') /\ replicas'[i] = replicas[i]]_vars

\* C9 witness: the re-deployment is complete, the same service now desires
\* and runs two tasks, and every resource is still its first physical one.
C9_Witness ==
  /\ stackStatus[AppId] = "UPDATE_COMPLETE"
  /\ svc.desiredCount = StartCount
  /\ Len(replicas) = StartCount
  /\ \A r \in AppResources : gen[r] = 1

\* The wired stacks are all deployed.
AllDeployed == \A s \in Wired : stackStatus[s] \in Complete

\* C10: with desiredCount: 0 in the source the service is created desiring
\* no task and no task ever runs, while a complete deployment has every
\* resource; a task runs only after the operator has changed desiredCount;
\* and a step that puts an operator's value into a secret is no step of a
\* deployment: it changes nothing else in the account or in the command.
C10_NoReplicaUntilOperator ==
  /\ [](/\ desiredCount = 0 =>
             /\ replicas = <<>>
             /\ svc.desiredCount = 0
        /\ AllDeployed => \A s \in Wired : Resources(s) \subseteq exists
        /\ replicas # <<>> => desiredCount = StartCount)
  /\ [][\A s \in Secrets :
          (secretValue'[s] = "operator" /\ secretValue[s] # "operator") =>
            /\ s \in OAuthSecrets
            /\ cmd = NoCmd
            /\ UNCHANGED <<cmd, synthVars, queue, stackStatus, exists, gen,
                           applied, svc, replicas, desiredCount>>]_vars

\* C10 witness: the whole graph is deployed as written, with every resource
\* and no task, the placeholders still holding their generated values.
C10_Witness ==
  /\ AllDeployed
  /\ desiredCount = 0
  /\ AllResources \cap UNION {Resources(s) : s \in Wired} \subseteq exists
  /\ "ecsService" \in exists
  /\ replicas = <<>>
  /\ \A s \in OAuthSecrets : secretValue[s] = "generated"

\* The command in progress deploys a graph that is the one last applied:
\* every stack it selects is deployed and the source is as it was then.
Reapplying ==
  /\ cmd.op = "deploy"
  /\ \A s \in Upstream(cmd.target) : stackStatus[s] \in Complete
  /\ "ecsService" \in exists =>
       applied["ecsService"].desiredCount = desiredCount

\* C11: applying an unchanged graph again changes nothing: no step of such a
\* deployment creates, updates, replaces or deletes a resource of any stack,
\* no stack changes status, and the generated secrets keep their values.
C11_ReapplyIsIdempotent ==
  [][Reapplying =>
       UNCHANGED <<stackStatus, exists, gen, applied, rules, lbDnsName,
                   clusterName, taskEnv, svc, secretValue>>]_vars

\* C11 witness: a deployment of app-stack has reached the app stack, which
\* an earlier deployment completed and whose placeholders the operator has
\* since filled in, and finds nothing to change.
C11_Witness ==
  /\ Running("deploy")
  /\ Head(queue) = AppId
  /\ cmd.target = AppId
  /\ Reapplying
  /\ Changed(AppId) = {}
  /\ \A s \in OAuthSecrets : secretValue[s] = "operator"

\* Who can have written a secret's value.
Writers == {"generated", "operator"}

\* Whether a string is, or holds, the value of a secret: whether the mark
\* that opens a secret's value occurs in it.
CarriesValue(v) ==
  \E i \in 1..Len(v) : v[i] = SecretStringOf("s", "w")[1]

\* The strings a resource's definition shows: those of its environment.
Shown(d) ==
  IF "environment" \in DOMAIN d
  THEN {d.environment[k] : k \in DOMAIN d.environment}
  ELSE {}

\* C12: AppStack takes the database credential from DatabaseStack only as
\* the handle databaseCredentialsSecretArn; the task definition names it in
\* its secrets by that identifier; no definition applied in the account, no
\* environment variable of the task definition or of a running task and no
\* stack output holds the value of any secret; a task starts only if the
\* execution role may read secrets, which the task role may not; and a step
\* that changes the value of a secret leaves every definition, applied or
\* written, every environment and every output as it was.
C12_IdentifierNeverValue ==
  /\ [](/\ \A x \in refs :
             x.owner = DatabaseId /\ x.consumer = AppId =>
               x.handle \in {"databaseCredentialsSecretArn", "database"}
        /\ \A k \in {"DB_USERNAME", "DB_PASSWORD", "DB_HOST", "DB_PORT"} :
             taskDefinition.secrets[k][1] = "databaseCredentialsSecretArn"
        /\ \A r \in exists : \A v \in Shown(applied[r]) : ~CarriesValue(v)
        /\ \A k \in DOMAIN taskEnv : ~CarriesValue(taskEnv[k])
        /\ \A i \in 1..Len(replicas) : \A k \in DOMAIN replicas[i] :
             ~CarriesValue(replicas[i][k])
        /\ \A s \in Stacks : \A v \in Outputs(s) : ~CarriesValue(v)
        /\ replicas # <<>> =>
             /\ "secretsmanager:GetSecretValue"
                  \in applied["taskDefinition"].executionRole.actions
             /\ "secretsmanager:GetSecretValue"
                  \notin applied["taskDefinition"].taskRole.actions)
  /\ [][(\E s \in Secrets :
           /\ secretValue[s] \in Writers
           /\ secretValue'[s] \in Writers
           /\ secretValue'[s] # secretValue[s])
        => /\ UNCHANGED <<applied, taskEnv, replicas, lbDnsName>>
           /\ \A r \in AllResources : Definition(r)' = Definition(r)
           /\ \A t \in Stacks : Outputs(t)' = Outputs(t)]_vars

\* C12 witness: tasks run with the database credential generated and a
\* placeholder rewritten by the operator after the task definition was
\* registered.
C12_Witness ==
  /\ Len(replicas) = StartCount
  /\ secretValue["databaseCredentialsSecret"] = "generated"
  /\ secretValue["liveBeatsGitHubClientSecretSecret"] = "operator"
  /\ \E x \in refs : x.handle = "databaseCredentialsSecretArn" /\ x.resolved

\* A step that creates, changes or deletes something of RoutingStack.
RoutingStep ==
  \/ stackStatus'[RoutingId] # stackStatus[RoutingId]
  \/ \E r \in RoutingResources :
       \/ (r \in exists) # (r \in exists')
       \/ applied'[r] # applied[r]
       \/ gen'[r] # gen[r]

vpcSubnets == Subnets(vpc)

vpcBlock == ParseCidr(vpc.cidr)

\* vpcSubnets: { subnetType }: the subnets the database is placed in.
databaseSubnets ==
  {i \in 1..Len(vpcSubnets) : vpcSubnets[i].subnetType = database.subnetType}

\* The layout of the subnets of the VPC as defined: four subnets, a public
\* and a private-isolated one in each of 2 zones, each a /23 of 512
\* addresses, inside the block, no two sharing an address.
SubnetLayout ==
  /\ Len(vpcSubnets) = 4
  /\ \A az \in 1..2 : \A t \in {"PUBLIC", "PRIVATE_ISOLATED"} :
       Cardinality({i \in 1..Len(vpcSubnets) :
                      /\ vpcSubnets[i].az = az
                      /\ vpcSubnets[i].subnetType = t}) = 1
  /\ \A i \in 1..Len(vpcSubnets) :
       /\ vpcSubnets[i].last - vpcSubnets[i].first + 1 = 512
       /\ vpcBlock.first <= vpcSubnets[i].first
       /\ vpcSubnets[i].last <= vpcBlock.first + BlockSize(vpcBlock.mask) - 1
  /\ \A i, j \in 1..Len(vpcSubnets) :
       i # j => \/ vpcSubnets[i].last < vpcSubnets[j].first
                \/ vpcSubnets[j].last < vpcSubnets[i].first

\* No private-isolated subnet of the VPC as defined has a route to the
\* internet, and there is no NAT gateway.
IsolatedTier ==
  /\ vpc.natGateways = 0
  /\ \A i \in 1..Len(vpcSubnets) :
       vpcSubnets[i].subnetType = "PRIVATE_ISOLATED"
         => ~HasInternetRoute(vpc, vpcSubnets[i])

\* The database as defined is placed in private-isolated subnets only, none
\* of which has a route to the internet.
DatabasePlacement ==
  /\ databaseSubnets # {}
  /\ \A i \in databaseSubnets :
       /\ vpcSubnets[i].subnetType = "PRIVATE_ISOLATED"
       /\ ~HasInternetRoute(vpc, vpcSubnets[i])

\* C16: the VPC that exists is the one defined, with four subnets, a public
\* and a private-isolated one in each of 2 availability zones, each a /23 of
\* 512 addresses; they lie inside 10.0.0.0/21 and no two share an address;
\* there is no NAT gateway and no private-isolated subnet has a route to
\* the internet; and the database that exists is placed in the
\* private-isolated subnets and in no other.
C16_SubnetsDisjointAndIsolated ==
  /\ "vpc" \in exists =>
       /\ applied["vpc"] = vpc
       /\ SubnetLayout
       /\ IsolatedTier
  /\ "database" \in exists =>
       /\ "vpc" \in exists
       /\ applied["database"].subnetType = database.subnetType
       /\ DatabasePlacement

\* C16 witness: the database exists in the VPC, whose last subnet is the
\* private-isolated one of the second zone and ends on the last address of
\* the block, 10.0.7.255.
C16_Witness ==
  /\ "database" \in exists
  /\ applied["vpc"] = vpc
  /\ vpcSubnets[4].subnetType = "PRIVATE_ISOLATED"
  /\ vpcSubnets[4].az = 2
  /\ vpcSubnets[4].last = ((10 * 256 + 0) * 256 + 7) * 256 + 255
  /\ databaseSubnets = {3, 4}

\* The kinds of action the specification speaks of.
ImageRegistryRead ==
  {"ecr:GetAuthorizationToken", "ecr:BatchCheckLayerAvailability",
   "ecr:GetDownloadUrlForLayer", "ecr:BatchGetImage"}

SecretRead ==
  {"ssm:GetParameters", "secretsmanager:GetSecretValue", "kms:Decrypt"}

ClusterIntrospection ==
  {"ecs:ListServices", "ecs:ListTasks", "ecs:DescribeTasks"}

LogActions ==
  {"logs:CreateLogGroup", "logs:CreateLogStream", "logs:DescribeLogStreams",
   "logs:PutRetentionPolicy", "logs:PutLogEvents"}

SessionChannel ==
  {"ssmmessages:CreateControlChannel", "ssmmessages:CreateDataChannel",
   "ssmmessages:OpenControlChannel", "ssmmessages:OpenDataChannel"}

\* The actions the two roles are granted by their policy statements.
ExecutionActions == executionRole.actions

TaskActions == taskRole.actions

\* The task definition registered in the account carries the two roles as
\* they are defined.
RolesRegistered ==
  /\ applied["taskDefinition"].executionRole = executionRole
  /\ applied["taskDefinition"].taskRole = taskRole

\* The separation of the two roles as the specification words it.
SeparationAsClaimed ==
  /\ ExecutionActions \subseteq ImageRegistryRead \cup SecretRead
  /\ TaskActions \subseteq
       ClusterIntrospection \cup LogActions \cup SessionChannel
  /\ TaskActions \cap SecretRead = {}
  /\ ExecutionActions \cap TaskActions = {}

\* The separation of the two roles as the policy statements give it.
SeparationAsGranted ==
  /\ ExecutionActions =
       ImageRegistryRead \cup SecretRead
         \cup {"logs:CreateLogStream", "logs:PutLogEvents"}
  /\ TaskActions = ClusterIntrospection \cup LogActions \cup SessionChannel
  /\ TaskActions \cap (SecretRead \cup ImageRegistryRead) = {}
  /\ ExecutionActions \cap (ClusterIntrospection \cup SessionChannel) = {}
  /\ ExecutionActions \cap TaskActions =
       {"logs:CreateLogStream", "logs:PutLogEvents"}

VpcEndpoints == {e \in Endpoints : e.net = "vpc"}

Sibling == [net |-> "vpc", group |-> "ecsServiceSecurityGroup"]

\* Ports a node may pick, the lowest and the highest among them.
NodePorts == {0, 4369, 9000, 65535}

\* The rules the service's security group is defined with.
serviceGroupRules == InlineRules(ecsServiceSecurityGroup)

\* Those rules admit inbound traffic on every port and every protocol from
\* every address of the VPC block.
AllTrafficFromVpc ==
  \A e \in VpcEndpoints : \A p \in NodePorts : \A q \in Protocols :
    AdmitsBy(serviceGroupRules, "ingress", e, q, p)

\* Those rules admit inbound TCP on every port from every address of the VPC
\* block, by the rule "all TCP from 10.0.0.0/21", let a task reach a sibling
\* on any TCP port, and admit no other protocol from anywhere.
AllTcpFromVpc ==
  /\ Rule("ingress", ipv4(vpcCidrBlock), allTcp) \in serviceGroupRules
  /\ allTcp.fromPort = 0 /\ allTcp.toPort = 65535
  /\ \A e \in VpcEndpoints : \A p \in NodePorts :
       AdmitsBy(serviceGroupRules, "ingress", e, "tcp", p)
  /\ \A p \in NodePorts :
       AdmitsBy(serviceGroupRules, "egress", Sibling, "tcp", p)
  /\ \A e \in Endpoints : \A p \in NodePorts :
       ~AdmitsBy(serviceGroupRules, "ingress", e, "udp", p)
  /\ \A x \in serviceGroupRules : x.dir = "ingress" => x.protocol = "tcp"

\* C18, as claimed: once it exists, the service's group has the rules it is
\* defined with, which admit inbound traffic on every port and every
\* protocol from every address of the VPC block.
C18_Original ==
  "ecsServiceSecurityGroup" \in exists =>
    /\ rules["ecsServiceSecurityGroup"] = serviceGroupRules
    /\ AllTrafficFromVpc

\* C18, amended: once it exists, the service's group has the rules it is
\* defined with, which admit inbound TCP on every port, 0 to 65535, from
\* every address of the VPC block, by the one rule "all TCP from
\* 10.0.0.0/21", so a task can reach a sibling task on whatever TCP port the
\* nodes pick; they admit no other protocol (no UDP) from anywhere.
C18_AllTcpFromVpc ==
  "ecsServiceSecurityGroup" \in exists =>
    /\ rules["ecsServiceSecurityGroup"] = serviceGroupRules
    /\ AllTcpFromVpc

\* C18 witness: two tasks run in the service's group, and the group admits a
\* sibling on a port no rule names.
C18_Witness ==
  /\ Len(replicas) = StartCount
  /\ Admits("ecsServiceSecurityGroup", "ingress", Sibling, "tcp", 9000)
  /\ ~Admits("ecsServiceSecurityGroup", "ingress", Sibling, "udp", 9000)

\* The inbound rules the database's security group can have: those it is
\* defined with and the one AppStack attaches.
databaseGroupIngress ==
  {x \in InlineRules(databaseSecurityGroup) : x.dir = "ingress"}
    \cup {a.rule : a \in databaseIngressRule.attach}

\* Those rules admit only members of the service's security group, and
\* them only on TCP 5432.
OnlyServiceOnDbPort ==
  /\ \A e \in Endpoints : \A p \in Ports : \A q \in Protocols :
       AdmitsBy(databaseGroupIngress, "ingress", e, q, p) =>
         /\ e.group = "ecsServiceSecurityGroup"
         /\ q = "tcp"
         /\ p = dbPort
  /\ \A x \in databaseGroupIngress :
       x.peer = sgPeer("ecsServiceSecurityGroup")

\* C19: in every state in which the database or its security group exists,
\* whatever stack is being deployed, updated or torn down, the group has no
\* inbound rule but those it can have by its definition and AppStack's,
\* which admit only members of the service's security group, and them only
\* on TCP port 5432; the database listens on 5432, belongs to that group
\* and no other, is not publicly accessible, and sits only in subnets that
\* have no route to the internet.
C19_DatabaseReachableOnlyFromService ==
  /\ "databaseSecurityGroup" \in exists =>
       /\ Ingress("databaseSecurityGroup") \subseteq databaseGroupIngress
       /\ OnlyServiceOnDbPort
  /\ "database" \in exists =>
       /\ applied["database"].port = 5432
       /\ applied["database"].securityGroups = {"databaseSecurityGroup"}
       /\ "databaseSecurityGroup" \in exists
       /\ ~applied["database"].publiclyAccessible
       /\ applied["database"].subnetType = database.subnetType
       /\ DatabasePlacement

\* C19 witness: AppStack is being torn down; its rule is still on the
\* database's group, through which a task of the service, and nothing else,
\* reaches the database.
C19_Witness ==
  /\ stackStatus[AppId] = "DELETE_IN_PROGRESS"
  /\ "database" \in exists
  /\ "ecsLoadBalancer" \notin exists
  /\ Admits("databaseSecurityGroup", "ingress", Sibling, "tcp", dbPort)
  /\ ~Admits("databaseSecurityGroup", "ingress",
             [net |-> "vpc", group |-> "ecsAlbSecurityGroup"], "tcp", dbPort)
  /\ ~Admits("databaseSecurityGroup", "ingress", Internet, "tcp", dbPort)

====
